---- MODULE Spec2Model ----
(***************************************************************************)
(* Model of the equity analysis application:                                *)
(*   analysis.get_best_fit_distribution  (the candidate loop),              *)
(*   analysis.monte_carlo_simulation     (compounding of drawn returns),    *)
(*   analysis.calculate_percentiles and app.run_analysis (the handler).     *)
(*                                                                          *)
(* What scipy/numpy/yfinance return is input to the program: a candidate's  *)
(* fit outcome, the drawn returns and the fetch result are chosen           *)
(* nondeterministically from small sets.                                    *)
(***************************************************************************)
EXTENDS Integers, Sequences, FiniteSets, TLC

VARIABLES
    \* get_best_fit_distribution
    distributions,      \* the candidate list, each with what scipy does for it
    fit_i,              \* position of the for loop
    best_distribution,
    best_params,
    best_sse,
    results,
    fit_pc,
    \* monte_carlo_simulation
    last_price,
    days,
    simulations,
    simulated_returns,
    simulation_paths,
    sim_pc,
    \* run_analysis
    pc,
    ticker,
    df,                     \* what fetch_data returned as data: rows, or None
    error,                  \* what fetch_data returned as error: text, or None
    extra_percentiles_str,  \* the text, as the tokens between its commas
    percentiles_list,
    percentile_values,
    calls,                  \* the analysis functions called so far, in order
    ret                     \* the tuple run_analysis returned

fitVars == <<distributions, fit_i, best_distribution, best_params, best_sse,
             results, fit_pc>>
simVars == <<last_price, days, simulations, simulated_returns,
             simulation_paths, sim_pc>>
appVars == <<pc, ticker, df, error, extra_percentiles_str, percentiles_list,
             percentile_values, calls, ret>>
vars == <<fitVars, simVars, appVars>>

----------------------------------------------------------------------------
(* Bounds of the model *)

MaxCands == 3       \* longest candidate list
MaxSSE == 2         \* largest finite SSE value
MaxRuns == 2        \* most simulation runs (rows)
MaxDays == 2        \* most simulated days (columns)
Unit == 2           \* a drawn return d stands for d / Unit
MaxTokens == 3      \* most comma-separated tokens of the percentile text

----------------------------------------------------------------------------
(* Floating point values as far as the comparisons of the fit loop see      *)
(* them: a finite value, +infinity or NaN.  An SSE is a sum of squares, so  *)
(* it is never negative.                                                    *)

Fin(v) == [k |-> "fin", v |-> v]
PosInf == [k |-> "inf", v |-> 0]
NaN == [k |-> "nan", v |-> 0]

IsFinite(a) == a.k = "fin"

\* a > b on floats: every comparison with NaN is false
FGt(a, b) ==
    CASE a.k = "nan" \/ b.k = "nan" -> FALSE
      [] a.k = "inf" -> b.k = "fin"
      [] b.k = "inf" -> FALSE
      [] OTHER -> a.v > b.v

FGe(a, b) ==
    CASE a.k = "nan" \/ b.k = "nan" -> FALSE
      [] a.k = "inf" -> TRUE
      [] b.k = "inf" -> FALSE
      [] OTHER -> a.v >= b.v

----------------------------------------------------------------------------
(* get_best_fit_distribution *)

\* the default candidate list, by distribution.name
DefaultDistributions ==
    <<"norm", "t", "lognorm", "nct", "gennorm", "laplace", "expon", "cauchy",
      "skewcauchy", "skewnorm", "gamma", "beta">>

\* What scipy does for one candidate: fit raises or returns parameters with
\* scale `scale`; pdf raises or gives a density whose SSE is `sse`.  A
\* non-positive scale makes pdf return NaN everywhere, hence a NaN SSE.
Outcomes ==
    {[fit |-> "raise", pdf |-> "ok", scale |-> 1, sse |-> NaN],
     [fit |-> "ok", pdf |-> "raise", scale |-> 1, sse |-> NaN],
     [fit |-> "ok", pdf |-> "ok", scale |-> 0, sse |-> NaN]}
    \cup {[fit |-> "ok", pdf |-> "ok", scale |-> 1, sse |-> s] :
            s \in {Fin(v) : v \in 0..MaxSSE} \cup {PosInf, NaN}}

\* The i-th candidate: its name, and fitted parameters (loc, scale) whose
\* location i tells the candidates (and the default (0, 1)) apart.
Candidate(i, o) ==
    [name |-> DefaultDistributions[i], loc |-> i, fit |-> o.fit,
     pdf |-> o.pdf, scale |-> o.scale, sse |-> o.sse]

CandLists ==
    UNION {{[i \in 1..n |-> Candidate(i, f[i])] : f \in [1..n -> Outcomes]} :
             n \in 0..MaxCands}

Params(c) == <<c.loc, c.scale>>

\* lines 84-88: the state before the loop
DefaultBest ==
    [best_distribution |-> "norm", best_params |-> <<0, 1>>,
     best_sse |-> PosInf, results |-> <<>>, exc |-> FALSE]

\* line 109: best_sse > sse > 0
BetterFitZeroAllowed(best, sse) == FGt(best, sse) /\ FGe(sse, Fin(0))
BetterFitTieReplaces(best, sse) == FGe(best, sse) /\ FGt(sse, Fin(0))
BetterFit(best, sse) == FGt(best, sse) /\ FGt(sse, Fin(0))

\* lines 92-112: the body of the try; exc is set when fit or pdf raises
TryBodyAppendFirst(st, c) ==
    LET st1 == [st EXCEPT !.results = Append(@, <<c.name, c.sse, Params(c)>>)]
    IN  IF c.fit = "raise" \/ c.pdf = "raise"
        THEN [st1 EXCEPT !.exc = TRUE]
        ELSE IF BetterFit(st.best_sse, c.sse)
             THEN [st1 EXCEPT !.best_distribution = c.name,
                              !.best_params = Params(c),
                              !.best_sse = c.sse]
             ELSE st1
TryBody(st, c) ==
    IF c.fit = "raise" \/ c.pdf = "raise"
    THEN [st EXCEPT !.exc = TRUE]
    ELSE LET st1 == [st EXCEPT
                       !.results = Append(@, <<c.name, c.sse, Params(c)>>)]
         IN  IF BetterFit(st.best_sse, c.sse)
             THEN [st1 EXCEPT !.best_distribution = c.name,
                              !.best_params = Params(c),
                              !.best_sse = c.sse]
             ELSE st1

\* lines 114-115: except Exception: pass
ExceptReraise(st) == st
ExceptPass(st) == [st EXCEPT !.exc = FALSE]

\* lines 90-115: one iteration of the for loop
LoopBody(st, c) == ExceptPass(TryBody(st, c))

FitState ==
    [best_distribution |-> best_distribution, best_params |-> best_params,
     best_sse |-> best_sse, results |-> results, exc |-> FALSE]

FitInit ==
    /\ distributions \in CandLists
    /\ fit_i = 1
    /\ best_distribution = DefaultBest.best_distribution
    /\ best_params = DefaultBest.best_params
    /\ best_sse = DefaultBest.best_sse
    /\ results = DefaultBest.results
    /\ fit_pc = "loop"

FitIterate ==
    /\ fit_pc = "loop"
    /\ fit_i <= Len(distributions)
    /\ LET st == LoopBody(FitState, distributions[fit_i])
       IN  /\ best_distribution' = st.best_distribution
           /\ best_params' = st.best_params
           /\ best_sse' = st.best_sse
           /\ results' = st.results
           /\ IF st.exc
              THEN fit_pc' = "raised" /\ fit_i' = fit_i
              ELSE fit_pc' = "loop" /\ fit_i' = fit_i + 1
    /\ UNCHANGED <<distributions, simVars, appVars>>

\* line 117
FitReturn ==
    /\ fit_pc = "loop"
    /\ fit_i > Len(distributions)
    /\ fit_pc' = "done"
    /\ UNCHANGED <<distributions, fit_i, best_distribution, best_params,
                   best_sse, results, simVars, appVars>>

AppIdle ==
    /\ pc = "idle"
    /\ ticker = ""
    /\ df = [ok |-> FALSE, rows |-> 0]
    /\ error = [ok |-> FALSE, text |-> ""]
    /\ extra_percentiles_str = <<"">>
    /\ percentiles_list = <<>>
    /\ percentile_values = <<>>
    /\ calls = <<>>
    /\ ret = <<>>

SimIdle ==
    /\ last_price = 0
    /\ days = 0
    /\ simulations = 0
    /\ simulated_returns = <<>>
    /\ simulation_paths = <<>>
    /\ sim_pc = "idle"

InitFit == FitInit /\ SimIdle /\ AppIdle
NextFit == FitIterate \/ FitReturn
SpecFit == InitFit /\ [][NextFit]_vars

----------------------------------------------------------------------------
(* Properties of get_best_fit_distribution *)

Raises(c) == c.fit = "raise" \/ c.pdf = "raise"
ZeroSSE(c) == ~Raises(c) /\ c.sse = Fin(0)
\* fitted without error, with a strictly positive finite SSE
Eligible(c) == ~Raises(c) /\ IsFinite(c.sse) /\ c.sse.v > 0
\* raised, or produced invalid parameters / a non-finite SSE
Failed(c) == Raises(c) \/ ~IsFinite(c.sse)
IsBest(i) ==
    /\ best_distribution = distributions[i].name
    /\ best_params = Params(distributions[i])
Cands == DOMAIN distributions
EligibleSet == {i \in Cands : Eligible(distributions[i])}
\* the earliest candidate with the lowest strictly positive SSE
FirstLowest ==
    CHOOSE i \in EligibleSet :
        \A j \in EligibleSet :
            \/ distributions[j].sse.v > distributions[i].sse.v
            \/ (distributions[j].sse.v = distributions[i].sse.v /\ i <= j)

\* C1: the function never returns as best a candidate whose SSE is exactly 0
\* when another candidate of the list has a positive finite SSE, wherever
\* the zero-SSE candidate stands in the list.
C1_ZeroSSENeverBest ==
    fit_pc = "done" =>
        \A i \in Cands :
            (ZeroSSE(distributions[i])
             /\ \E j \in Cands \ {i} : Eligible(distributions[j]))
            => ~IsBest(i)

C1_Witness ==
    /\ fit_pc = "done"
    /\ \E i, j, k \in Cands :
        /\ i < j /\ j < k
        /\ ZeroSSE(distributions[i])
        /\ Eligible(distributions[j])
        /\ ZeroSSE(distributions[k])
        /\ IsBest(j)

\* C2: once every candidate is processed, the returned best distribution
\* and parameters are those of the candidate with the lowest strictly
\* positive (finite) SSE among those that fitted without error, the earliest
\* of them on a tie.
C2_LowestPositiveSSEWins ==
    (fit_pc = "done" /\ EligibleSet # {}) =>
        /\ IsBest(FirstLowest)
        /\ best_sse = distributions[FirstLowest].sse

C2_Witness ==
    /\ fit_pc = "done"
    /\ \E h, i, j \in EligibleSet :
        /\ h < i /\ i < j
        /\ distributions[h].sse.v > distributions[i].sse.v
        /\ distributions[i].sse = distributions[j].sse
        /\ IsBest(i)

NumFitted == Cardinality({i \in Cands : ~Raises(distributions[i])})

C4_NoFailedBest ==
    /\ fit_pc # "raised"
    /\ \A i \in Cands : Failed(distributions[i]) => ~IsBest(i)
    /\ fit_pc = "done" =>
        /\ fit_i = Len(distributions) + 1
        /\ Len(results) = NumFitted

C4_FailedStep ==
    (fit_pc = "loop" /\ fit_i \in Cands /\ Failed(distributions[fit_i])) =>
        /\ best_distribution' = best_distribution
        /\ best_params' = best_params
        /\ best_sse' = best_sse
        /\ fit_pc' = "loop"
        /\ fit_i' = fit_i + 1

\* C4: a candidate whose fit or pdf raises, or whose parameters are invalid
\* (non-finite SSE), is never the best, leaves the current best
\* distribution, parameters and SSE unchanged, and the loop goes on to every
\* remaining candidate.
C4_FailedCandidateExcluded == [](C4_NoFailedBest) /\ [][C4_FailedStep]_vars

C4_Witness ==
    /\ fit_pc = "done"
    /\ \E h, i, j \in Cands :
        /\ h < i /\ i < j
        /\ Eligible(distributions[h])
        /\ Failed(distributions[i])
        /\ Eligible(distributions[j])
        /\ IsBest(j)
    /\ \E i \in Cands : Raises(distributions[i]) \/ distributions[i].scale = 0

----------------------------------------------------------------------------
(* monte_carlo_simulation *)

\* Returns are fractions with denominator Unit: the draw d is the return
\* d / Unit.  The draws cover a return below -1, exactly -1, between -1
\* and 0, and above 0.
DrawVals == {-Unit - 1, -Unit, -1, 1}
Prices == {-1, 1, 3}

\* line 129: what rvs may return for size = (simulations, days)
DrawMatrices(m, n) == [1..m -> [1..n -> DrawVals]]

\* line 136: 1 + return, as a numerator over Unit
GrowthFactors(returns) ==
    [r \in DOMAIN returns |->
        [k \in DOMAIN returns[r] |-> Unit + returns[r][k]]]

RECURSIVE ProdTo(_, _)
ProdTo(row, k) == IF k = 0 THEN 1 ELSE ProdTo(row, k - 1) * row[k]

RECURSIVE SumTo(_, _)
SumTo(row, k) == IF k = 0 THEN 0 ELSE SumTo(row, k - 1) + row[k]

\* line 139: np.cumprod(growth_factors, axis=1); column k has the
\* denominator Unit^k
CumSum(growth) ==
    [r \in DOMAIN growth |->
        [k \in DOMAIN growth[r] |-> SumTo(growth[r], k)]]
CumProd(growth) ==
    [r \in DOMAIN growth |->
        [k \in DOMAIN growth[r] |-> ProdTo(growth[r], k)]]

\* lines 136-144: the price paths of the drawn returns; the cell of column
\* k is a numerator over Unit^k
monte_carlo_simulation(price, returns) ==
    LET cumulative_growth == CumProd(GrowthFactors(returns))
    IN  [r \in DOMAIN returns |->
            [k \in DOMAIN returns[r] |-> price * cumulative_growth[r][k]]]

SimInit ==
    /\ last_price \in Prices
    /\ days \in 1..MaxDays
    /\ simulations \in 1..MaxRuns
    /\ simulated_returns = <<>>
    /\ simulation_paths = <<>>
    /\ sim_pc = "call"

\* lines 119-144
Simulate ==
    /\ sim_pc = "call"
    /\ \E draws \in DrawMatrices(simulations, days) :
        /\ simulated_returns' = draws
        /\ simulation_paths' = monte_carlo_simulation(last_price, draws)
    /\ sim_pc' = "done"
    /\ UNCHANGED <<last_price, days, simulations, fitVars, appVars>>

FitIdle ==
    /\ distributions = <<>>
    /\ fit_i = 1
    /\ best_distribution = DefaultBest.best_distribution
    /\ best_params = DefaultBest.best_params
    /\ best_sse = DefaultBest.best_sse
    /\ results = DefaultBest.results
    /\ fit_pc = "idle"

InitSim == SimInit /\ FitIdle /\ AppIdle
NextSim == Simulate
SpecSim == InitSim /\ [][NextSim]_vars

----------------------------------------------------------------------------
(* Properties of monte_carlo_simulation *)

Rows == DOMAIN simulation_paths
AllDrawsAboveMinusOne ==
    \A r \in DOMAIN simulated_returns :
        \A k \in DOMAIN simulated_returns[r] : simulated_returns[r][k] > -Unit
AllPositive ==
    \A r \in Rows : \A k \in DOMAIN simulation_paths[r] :
        simulation_paths[r][k] > 0

\* C8: the result has `simulations` rows and `days` columns; in every run
\* the value at step 0 is last_price * (1 + draw_0) and each later value is
\* the previous one * (1 + that step's draw); with a positive last_price and
\* every draw above -1 every value is strictly positive.  (Column k has the
\* denominator Unit^k, so both sides are numerators over the same power.)
C8_PathsCompound ==
    sim_pc = "done" =>
        /\ Len(simulation_paths) = simulations
        /\ \A r \in Rows :
            /\ Len(simulation_paths[r]) = days
            /\ simulation_paths[r][1] =
                   last_price * (Unit + simulated_returns[r][1])
            /\ \A k \in 2..days :
                   simulation_paths[r][k] =
                       simulation_paths[r][k - 1]
                           * (Unit + simulated_returns[r][k])
        /\ (last_price > 0 /\ AllDrawsAboveMinusOne) => AllPositive

C8_Witness ==
    /\ sim_pc = "done"
    /\ simulations >= 2
    /\ days >= 2
    /\ last_price > 1
    /\ AllDrawsAboveMinusOne
    /\ \E r \in Rows : simulated_returns[r][1] < 0 /\ simulated_returns[r][2] > 0
    /\ AllPositive

\* C9: the returned matrix never holds a non-positive value, whatever the
\* draws, a draw of -1 or below included.
C9_NeverNonPositive ==
    (sim_pc = "done" /\ last_price > 0) => AllPositive

----------------------------------------------------------------------------
(* calculate_percentiles and run_analysis.  Percentiles are in tenths      *)
(* (2.5 is 25, 100 is 1000).                                                *)

MinRows == 30
DefaultInvestment == 10000

Tickers == {"", "SPY"}
Investments == {0, 3}

\* what yf.download may do: raise, or return a frame of so many rows
Downloads ==
    {[kind |-> "raise", rows |-> 0]}
    \cup {[kind |-> "frame", rows |-> n] : n \in {0, 1, MinRows - 1, MinRows}}

None == [ok |-> FALSE, rows |-> 0]
NoError == [ok |-> FALSE, text |-> ""]

\* fetch_data: (df, None), or (None, message) for an empty frame or an
\* exception; the text of a caught exception is taken to be non-empty
fetch_data(download) ==
    CASE download.kind = "raise" ->
            <<None, [ok |-> TRUE, text |-> "download failed"]>>
      [] download.rows = 0 ->
            <<None, [ok |-> TRUE,
                     text |-> "No data found for this ticker and date range."]>>
      [] OTHER -> <<[ok |-> TRUE, rows |-> download.rows], NoError>>

\* truth value of a returned error: None and "" are false
Truthy(e) == e.ok /\ e.text # ""

\* line 19: len(df) < 30
InsufficientOffByOne(d) == d.rows < MinRows - 1
Insufficient(d) == d.rows < MinRows

\* the values a return statement gives
NoneValue == [kind |-> "none", body |-> <<>>]
Message(text) == [kind |-> "message", body |-> text]
Chart(name) == [kind |-> "chart", body |-> <<name>>]
\* lines 12, 17, 20: a message and four None
ErrorReturn(text) ==
    <<Message(text), NoneValue, NoneValue, NoneValue, NoneValue>>
\* lines 57-71: the report, one line per percentile, and the three charts
ReportReturn(values) ==
    <<[kind |-> "report", body |-> values],
      Chart("price"), Chart("dist"), Chart("sim")>>

\* lines 107-111: the components the click handler binds
Outputs ==
    <<"output_report", "chart_price_output", "chart_dist_output",
      "chart_sim_output">>

\* line 41
DefaultPercentiles == <<10, 50, 100, 250, 500, 750, 900>>

\* the tokens a percentile text is made of (what split(',') gives)
Tokens == {"", "2.5", " abc", " 97.5", "150", "50"}
TokenLists == UNION {[1..n -> Tokens] : n \in 1..MaxTokens}

\* p.strip()
Strip(p) ==
    CASE p = " abc" -> "abc"
      [] p = " 97.5" -> "97.5"
      [] OTHER -> p

\* float(s): raises ValueError unless s is a number
IsNumber(s) == s \in {"2.5", "97.5", "150", "50"}
Float(s) ==
    CASE s = "2.5" -> 25
      [] s = "97.5" -> 975
      [] s = "150" -> 1500
      [] s = "50" -> 500

SeqToSet(q) == {q[i] : i \in DOMAIN q}
Min(S) == CHOOSE x \in S : \A y \in S : x <= y

\* sorted(list(set(...)))
RECURSIVE Sorted(_)
Sorted(S) == IF S = {} THEN <<>> ELSE <<Min(S)>> \o Sorted(S \ {Min(S)})

\* lines 41-50: the percentile list for the percentile text `str`.  The
\* comprehension converts every non-blank token before the list is extended,
\* so a ValueError of any token leaves the list as it was.
ParsePercentiles(str) ==
    IF str = <<"">>
    THEN DefaultPercentiles
    ELSE LET kept == SelectSeq(str, LAMBDA p : Strip(p) # "")
         IN  IF \E i \in DOMAIN kept : ~IsNumber(Strip(kept[i]))
             THEN DefaultPercentiles
             ELSE Sorted(SeqToSet(DefaultPercentiles)
                         \cup {Float(Strip(kept[i])) : i \in DOMAIN kept})

\* lines 150-151: np.percentile raises ValueError for a percentile outside
\* [0, 100]; otherwise one entry per percentile, in the order of the list
calculate_percentiles(paths, percentiles) ==
    IF \E i \in DOMAIN percentiles : percentiles[i] < 0 \/ percentiles[i] > 1000
    THEN [raised |-> TRUE, keys |-> <<>>]
    ELSE [raised |-> FALSE, keys |-> percentiles]

\* lines 84-117 as one call: the loop over every candidate
RECURSIVE FitLoop(_, _)
FitLoop(cands, n) ==
    IF n = 0 THEN DefaultBest ELSE LoopBody(FitLoop(cands, n - 1), cands[n])
get_best_fit_distribution(cands) == FitLoop(cands, Len(cands))

AppInit ==
    /\ pc = "start"
    /\ ticker \in Tickers
    /\ df = None
    /\ error = NoError
    /\ extra_percentiles_str = <<"">>
    /\ percentiles_list = <<>>
    /\ percentile_values = <<>>
    /\ calls = <<>>
    /\ ret = <<>>

\* lines 11-12
CheckTicker ==
    /\ pc = "start"
    /\ IF ticker = ""
       THEN pc' = "done" /\ ret' = ErrorReturn(<<"Please enter a ticker symbol.">>)
       ELSE pc' = "fetch" /\ ret' = ret
    /\ UNCHANGED <<ticker, df, error, extra_percentiles_str, percentiles_list,
                   percentile_values, calls, fitVars, simVars>>

\* lines 15-17
FetchData ==
    /\ pc = "fetch"
    /\ \E download \in Downloads :
        LET got == fetch_data(download)
        IN  /\ df' = got[1]
            /\ error' = got[2]
            /\ IF Truthy(got[2])
               THEN /\ pc' = "done"
                    /\ ret' = ErrorReturn(<<"Error fetching data: ", got[2].text>>)
               ELSE pc' = "rows" /\ ret' = ret
    /\ calls' = Append(calls, "fetch_data")
    /\ UNCHANGED <<ticker, extra_percentiles_str, percentiles_list,
                   percentile_values, fitVars, simVars>>

\* lines 19-20; len(None) raises TypeError
CheckRows ==
    /\ pc = "rows"
    /\ IF ~df.ok
       THEN pc' = "raised" /\ ret' = ret
       ELSE IF Insufficient(df)
            THEN /\ pc' = "done"
                 /\ ret' = ErrorReturn(
                        <<"Insufficient data points for analysis (need at least 30).">>)
            ELSE pc' = "returns" /\ ret' = ret
    /\ UNCHANGED <<ticker, df, error, extra_percentiles_str, percentiles_list,
                   percentile_values, calls, fitVars, simVars>>

\* lines 23-24
CalculateReturns ==
    /\ pc = "returns"
    /\ calls' = Append(calls, "calculate_returns")
    /\ pc' = "fit"
    /\ UNCHANGED <<ticker, df, error, extra_percentiles_str, percentiles_list,
                   percentile_values, ret, fitVars, simVars>>

\* lines 27-28: the fit over the default candidates, here a list of one
\* candidate (when it raises, the result is the default norm (0, 1))
FitDistribution ==
    /\ pc = "fit"
    /\ \E cands \in {c \in CandLists : Len(c) = 1} :
        LET best == get_best_fit_distribution(cands)
        IN  /\ distributions' = cands
            /\ fit_i' = Len(cands) + 1
            /\ best_distribution' = best.best_distribution
            /\ best_params' = best.best_params
            /\ best_sse' = best.best_sse
            /\ results' = best.results
            /\ fit_pc' = IF best.exc THEN "raised" ELSE "done"
            /\ pc' = IF best.exc THEN "raised" ELSE "simulate"
    /\ calls' = Append(calls, "get_best_fit_distribution")
    /\ UNCHANGED <<ticker, df, error, extra_percentiles_str, percentiles_list,
                   percentile_values, ret, simVars>>

\* lines 32-38: the simulation starts from the initial investment; the
\* drawn matrix is one run of one day, which is all the later steps of the
\* handler depend on
RunSimulation ==
    /\ pc = "simulate"
    /\ \E initial_investment \in Investments :
        \E draws \in DrawMatrices(1, 1) :
            LET start_value == IF initial_investment # 0
                               THEN initial_investment
                               ELSE DefaultInvestment
            IN  /\ last_price' = start_value
                /\ simulations' = Len(draws)
                /\ days' = Len(draws[1])
                /\ simulated_returns' = draws
                /\ simulation_paths' = monte_carlo_simulation(start_value, draws)
    /\ sim_pc' = "done"
    /\ calls' = Append(calls, "monte_carlo_simulation")
    /\ pc' = "parse"
    /\ UNCHANGED <<ticker, df, error, extra_percentiles_str, percentiles_list,
                   percentile_values, ret, fitVars>>

\* lines 41-50
ParsePercentileText ==
    /\ pc = "parse"
    /\ \E str \in TokenLists :
        /\ extra_percentiles_str' = str
        /\ percentiles_list' = ParsePercentiles(str)
    /\ pc' = "percentiles"
    /\ UNCHANGED <<ticker, df, error, percentile_values, calls, ret, fitVars,
                   simVars>>

\* line 52
CalculatePercentiles ==
    /\ pc = "percentiles"
    /\ LET got == calculate_percentiles(simulation_paths, percentiles_list)
       IN  /\ percentile_values' = got.keys
           /\ pc' = IF got.raised THEN "raised" ELSE "report"
    /\ calls' = Append(calls, "calculate_percentiles")
    /\ UNCHANGED <<ticker, df, error, extra_percentiles_str, percentiles_list,
                   ret, fitVars, simVars>>

\* lines 57-71
ReturnReport ==
    /\ pc = "report"
    /\ ret' = ReportReturn(percentile_values)
    /\ pc' = "done"
    /\ UNCHANGED <<ticker, df, error, extra_percentiles_str, percentiles_list,
                   percentile_values, calls, fitVars, simVars>>

InitApp == AppInit /\ FitIdle /\ SimIdle
NextApp ==
    \/ CheckTicker
    \/ FetchData
    \/ CheckRows
    \/ CalculateReturns
    \/ FitDistribution
    \/ RunSimulation
    \/ ParsePercentileText
    \/ CalculatePercentiles
    \/ ReturnReport
SpecApp == InitApp /\ [][NextApp]_vars

----------------------------------------------------------------------------
(* Properties of run_analysis *)

NumberTokens(str) == {i \in DOMAIN str : IsNumber(Strip(str[i]))}
BadTokens(str) ==
    {i \in DOMAIN str : Strip(str[i]) # "" /\ ~IsNumber(Strip(str[i]))}

\* C5: when the percentile text holds numeric and non-numeric tokens, the
\* percentiles are computed over a list holding every default percentile
\* and every numeric token; only the non-numeric token is dropped and the
\* request does not fail at the parse.
C5_NumericTokensKept ==
    ("calculate_percentiles" \in SeqToSet(calls)
     /\ NumberTokens(extra_percentiles_str) # {}
     /\ BadTokens(extra_percentiles_str) # {})
    => /\ SeqToSet(DefaultPercentiles) \subseteq SeqToSet(percentiles_list)
       /\ \A i \in NumberTokens(extra_percentiles_str) :
            Float(Strip(extra_percentiles_str[i])) \in SeqToSet(percentiles_list)

\* C6: run_analysis always ends by returning a complete report (every
\* requested percentile and the three charts) or an explicit error message;
\* no exception escapes the handler.
C6_ReportOrMessage ==
    /\ pc # "raised"
    /\ pc = "done" =>
        \/ ret[1].kind = "message"
        \/ /\ ret[1].kind = "report"
           /\ ret[1].body = percentiles_list
           /\ \A i \in 2..4 : ret[i].kind = "chart"

StageOrder ==
    <<"fetch_data", "calculate_returns", "get_best_fit_distribution",
      "monte_carlo_simulation", "calculate_percentiles">>

\* C7: with fewer than 30 rows the handler returns a message before any
\* later stage; calculate_returns, get_best_fit_distribution,
\* monte_carlo_simulation and calculate_percentiles are called only after a
\* fetch that gave at least 30 rows, and in that order.
C7_StagesOnlyAfterEnoughRows ==
    /\ Len(calls) <= Len(StageOrder)
    /\ \A i \in DOMAIN calls : calls[i] = StageOrder[i]
    /\ Len(calls) >= 2 => (df.ok /\ ~Truthy(error) /\ df.rows >= 30)
    /\ (pc = "done" /\ df.ok /\ df.rows < 30) =>
        /\ calls = <<"fetch_data">>
        /\ ret[1].kind = "message"

C7_WitnessFullRun ==
    /\ pc = "done"
    /\ calls = StageOrder
    /\ df.rows = 30
    /\ ret[1].kind = "report"

C7_Witness ==
    /\ pc = "done"
    /\ df.ok
    /\ df.rows = 29
    /\ ret[1].kind = "message"

\* C10: every return of run_analysis gives as many values as the click
\* handler binds output components.
C10_ReturnArity == pc = "done" => Len(ret) = Len(Outputs)

====
